---- MODULE Spec2Model ----
(***************************************************************************)
(* Naive Rabin cryptosystem: key generation, modular-squaring encryption,  *)
(* CRT decryption into four candidates (src/src/main.rs) and the           *)
(* positional text <-> integer codec (src/src/encoding.rs).                *)
(*                                                                         *)
(* BigInt arithmetic is modelled with its Rust semantics: `/` and `%`      *)
(* truncate toward zero, modpow rounds like mod_floor and panics on a      *)
(* negative exponent or a zero modulus.  A Rust &str is a sequence of      *)
(* chars, each with its UTF-8 byte width: len() and find() count bytes,    *)
(* chars().nth() counts chars.                                             *)
(***************************************************************************)
EXTENDS Integers, Sequences, FiniteSets, TLC

VARIABLES pc, key, keySource, message, ciphertext, ctSource, candidates,
          cpc, text, alphabet, encoded, decoded

cryptoVars == <<pc, key, keySource, message, ciphertext, ctSource, candidates>>
codecVars == <<cpc, text, alphabet, encoded, decoded>>
vars == <<pc, key, keySource, message, ciphertext, ctSource, candidates,
          cpc, text, alphabet, encoded, decoded>>

(* ---------------------------- bounds ----------------------------------- *)
\* generate_keypair is called with bit sizes 2..MaxBits
MaxBits == 4
\* caller-supplied p and q range over -MaxNeg..MaxKey
MaxKey == 11
MaxNeg == 2
\* texts have at most MaxTextLen chars, alphabets at most MaxAlphaLen symbols
MaxTextLen == 3
MaxAlphaLen == 3

(* ------------------------ BigInt arithmetic ---------------------------- *)
Abs(x) == IF x < 0 THEN -x ELSE x

\* BigInt `/`: truncated division (b # 0)
Quot(a, b) ==
  LET m == Abs(a) \div Abs(b)
  IN IF (a < 0) = (b < 0) THEN m ELSE -m

\* BigInt `%`: truncated remainder, sign of the dividend (b # 0)
Rem(a, b) ==
  LET m == Abs(a) % Abs(b)
  IN IF a < 0 THEN -m ELSE m

IsPrime(x) == x > 1 /\ \A d \in 2..(x - 1) : x % d # 0

RECURSIVE Pow(_, _)
Pow(b, e) == IF e = 0 THEN 1 ELSE b * Pow(b, e - 1)

\* BigUint::modpow on magnitudes (m > 0, e >= 0)
RECURSIVE UModPow(_, _, _)
UModPow(b, e, m) ==
  IF e = 0 THEN 1 % m ELSE ((b % m) * UModPow(b, e - 1, m)) % m

\* BigInt::modpow panics on a negative exponent or a zero modulus
modpow_panics(exponent, modulus) == exponent < 0 \/ modulus = 0

\* BigInt::modpow: the sign of the result follows the modulus (mod_floor)
modpow(base, exponent, modulus) ==
  LET result == UModPow(Abs(base), exponent, Abs(modulus))
      negBase == base < 0 /\ exponent % 2 = 1
  IN IF result = 0 THEN 0
     ELSE IF ~negBase /\ modulus > 0 THEN result
     ELSE IF negBase /\ modulus > 0 THEN Abs(modulus) - result
     ELSE IF ~negBase /\ modulus < 0 THEN -(Abs(modulus) - result)
     ELSE -result

Panic == [tag |-> "panic"]
NotYet == [tag |-> "none"]
Ok(v) == [tag |-> "ok", val |-> v]

(* --------------------------- main.rs ----------------------------------- *)
\* rng.gen_prime(bit_size, config): an odd prime below 2^bit_size
rand_prime(bit_size) == {x \in 3..(Pow(2, bit_size) - 1) : IsPrime(x)}

\* gen_prime: redraw until prime % 4 == 3
gen_prime(bit_size) == {prime \in rand_prime(bit_size) : prime % 4 = 3}

\* generate_keypair: the keypairs the two draws can produce
generate_keypair(bit_size) ==
  {[n |-> p * q, p |-> p, q |-> q] : p \in gen_prime(bit_size), q \in gen_prime(bit_size)}

\* encrypt: (message * message) % n; BigInt `%` panics on a zero divisor
encrypt(m, n) == IF n = 0 THEN Panic ELSE Ok(Rem(m * m, n))

\* the exponent (p + 1) / 4 of the square root modulo p
sqrt_exponent(p) == Quot(p + 1, 4)

\* mutant: the exponent p - 1, which yields 1 instead of the inverse
inverse_exponent_off(p) == p - 1

\* the exponent p - 2 of the Fermat inverse modulo p
inverse_exponent(p) == p - 2

\* mutant: the sum reduced into [0, n) as mod_floor would
crt_combine_floor(yp, q, mp, yq, p, mq, n) == (yp * q * mp + yq * p * mq) % n

\* (yp * q * mp + yq * p * mq) % n
crt_combine(yp, q, mp, yq, p, mq, n) == Rem(yp * q * mp + yq * p * mq, n)

compute_candidates(c, p, q, n) ==
  IF \/ modpow_panics(sqrt_exponent(p), p)
     \/ modpow_panics(sqrt_exponent(q), q)
     \/ modpow_panics(inverse_exponent(p), p)
     \/ modpow_panics(inverse_exponent(q), q)
     \/ n = 0
  THEN Panic
  ELSE LET mp == modpow(c, sqrt_exponent(p), p)
           mq == modpow(c, sqrt_exponent(q), q)
           yp == modpow(q, inverse_exponent(p), p)
           yq == modpow(p, inverse_exponent(q), q)
           r1 == crt_combine(yp, q, mp, yq, p, mq, n)
           r2 == n - r1
           r3 == crt_combine(yp, q, -mp, yq, p, -mq, n)
           r4 == n - r3
       IN Ok(<<r1, r2, r3, r4>>)

decrypt(c, p, q) == compute_candidates(c, p, q, p * q)

(* ----------------------------- state ----------------------------------- *)
Init ==
  /\ pc = "start"
  /\ key = [n |-> 0, p |-> 0, q |-> 0]
  /\ keySource = "none"
  /\ message = 0
  /\ ciphertext = NotYet
  /\ ctSource = "none"
  /\ candidates = NotYet
  /\ cpc = "start"
  /\ text = <<>>
  /\ alphabet = <<>>
  /\ encoded = NotYet
  /\ decoded = NotYet

\* let (n, p, q) = generate_keypair(bits)
GenerateKeypair ==
  /\ pc = "start"
  /\ \E bit_size \in 2..MaxBits : \E kp \in generate_keypair(bit_size) : key' = kp
  /\ keySource' = "generated"
  /\ pc' = "keyed"
  /\ UNCHANGED <<message, ciphertext, ctSource, candidates>>
  /\ UNCHANGED codecVars

\* p and q supplied by the caller, n = p * q
SupplyKey ==
  /\ pc = "start"
  /\ \E p \in (-MaxNeg)..MaxKey : \E q \in (-MaxNeg)..MaxKey :
       key' = [n |-> p * q, p |-> p, q |-> q]
  /\ keySource' = "supplied"
  /\ pc' = "keyed"
  /\ UNCHANGED <<message, ciphertext, ctSource, candidates>>
  /\ UNCHANGED codecVars

\* let ciphertext = encrypt(&message, &n)
Encrypt ==
  /\ pc = "keyed"
  /\ \E m \in (-MaxNeg)..(Abs(key.n) + 1) :
       /\ message' = m
       /\ ciphertext' = encrypt(m, key.n)
  /\ ctSource' = "encrypt"
  /\ pc' = "ciphertext"
  /\ UNCHANGED <<key, keySource, candidates>>
  /\ UNCHANGED codecVars

\* a ciphertext given as a literal
LiteralCiphertext ==
  /\ pc = "keyed"
  /\ \E c \in (-MaxNeg)..(Abs(key.n) + 1) : ciphertext' = Ok(c)
  /\ ctSource' = "literal"
  /\ pc' = "ciphertext"
  /\ UNCHANGED <<key, keySource, message, candidates>>
  /\ UNCHANGED codecVars

\* let candidates = decrypt(&ciphertext, &p, &q)
Decrypt ==
  /\ pc = "ciphertext"
  /\ ciphertext.tag = "ok"
  /\ candidates' = decrypt(ciphertext.val, key.p, key.q)
  /\ pc' = "done"
  /\ UNCHANGED <<key, keySource, message, ciphertext, ctSource>>
  /\ UNCHANGED codecVars

NextCrypto == GenerateKeypair \/ SupplyKey \/ Encrypt \/ LiteralCiphertext \/ Decrypt

SpecCrypto == Init /\ [][NextCrypto]_vars

(* ------------------------- crypto properties --------------------------- *)
\* p, q distinct primes congruent to 3 mod 4 and n = p * q
ValidKey ==
  /\ IsPrime(key.p) /\ IsPrime(key.q)
  /\ key.p # key.q
  /\ key.p % 4 = 3 /\ key.q % 4 = 3
  /\ key.n = key.p * key.q

\* decrypt was applied to encrypt(message, n) with 0 <= message < n under a valid key
DecryptedOwnMessage ==
  /\ pc = "done"
  /\ ValidKey
  /\ ctSource = "encrypt"
  /\ 0 <= message /\ message < key.n

Returned == candidates.tag = "ok"

PairwiseDistinct(s) == \A i \in 1..Len(s) : \A j \in 1..Len(s) : i # j => s[i] # s[j]

\* C1: under a valid keypair, every message m with 0 <= m < n is one of the
\* four values returned by decrypt(encrypt(m, n), p, q).
C1_DecryptCorrectness ==
  DecryptedOwnMessage =>
    /\ Returned
    /\ \E i \in 1..Len(candidates.val) : candidates.val[i] = message

\* C2: under a valid keypair and a ciphertext encrypt(m, n) with 0 <= m < n,
\* every value c returned by decrypt satisfies (c * c) mod n = ciphertext.
C2_CandidateValidity ==
  DecryptedOwnMessage =>
    /\ Returned
    /\ \A i \in 1..Len(candidates.val) :
         (candidates.val[i] * candidates.val[i]) % key.n = ciphertext.val

\* C2 witness: a decrypted own message whose candidates include a negative value
C2_Witness ==
  /\ DecryptedOwnMessage
  /\ message > 1
  /\ Returned
  /\ \E i \in 1..Len(candidates.val) : candidates.val[i] < 0

\* C3: under a valid keypair and 0 <= ciphertext < n, each of the four
\* returned values lies in [0, n).
C3_CandidateRange ==
  (/\ pc = "done"
   /\ ValidKey
   /\ 0 <= ciphertext.val /\ ciphertext.val < key.n) =>
    /\ Returned
    /\ \A i \in 1..Len(candidates.val) :
         0 <= candidates.val[i] /\ candidates.val[i] < key.n

\* C5: generate_keypair returns p # q for every outcome of the two draws.
C5_DistinctPrimes ==
  keySource = "generated" => key.p # key.q

\* C7: encrypt returns an InvalidModulus error exactly when n <= 0, decrypt
\* returns one whenever p <= 0 or q <= 0, and neither call aborts.
C7_InvalidModulus ==
  /\ ctSource = "encrypt" =>
       /\ ciphertext.tag # "panic"
       /\ (ciphertext.tag = "InvalidModulus") <=> (key.n <= 0)
  /\ pc = "done" =>
       /\ candidates.tag # "panic"
       /\ (key.p <= 0 \/ key.q <= 0) => candidates.tag = "InvalidModulus"

NegatedPair ==
  LET r == candidates.val
  IN /\ r[2] = key.n - r[1]
     /\ r[3] = -r[1]
     /\ r[4] = key.n + r[1]
     /\ Cardinality({r[i] % key.n : i \in 1..4}) <= 2

Chars == {"0", "a", "$", "U+00E9"}

\* char::len_utf8
len_utf8(c) == IF c = "U+00E9" THEN 2 ELSE 1

\* str::len(): the length in bytes
RECURSIVE str_len(_)
str_len(s) == IF s = <<>> THEN 0 ELSE len_utf8(Head(s)) + str_len(Tail(s))

\* str::find(c): Some(byte offset of the first occurrence), or None
str_find(s, c) ==
  IF \E i \in 1..Len(s) : s[i] = c
  THEN LET i == CHOOSE i \in 1..Len(s) : s[i] = c /\ \A j \in 1..(i - 1) : s[j] # c
       IN [tag |-> "Some", val |-> str_len(SubSeq(s, 1, i - 1))]
  ELSE [tag |-> "None"]

\* str::chars().nth(k): the k-th char, counted from 0, or None
chars_nth(s, k) ==
  IF k < Len(s) THEN [tag |-> "Some", val |-> s[k + 1]] ELSE [tag |-> "None"]

\* the loop of str2num from char i on, with the number accumulated so far
RECURSIVE str2num_loop(_, _, _, _)
str2num_loop(s, digitstring, i, num) ==
  IF i > Len(s) THEN [tag |-> "Some", val |-> num]
  ELSE LET pos == str_find(digitstring, s[i])
       IN IF pos.tag = "Some"
          THEN str2num_loop(s, digitstring, i + 1, num * str_len(digitstring) + pos.val)
          ELSE [tag |-> "None"]

str2num(s, digitstring) == str2num_loop(s, digitstring, 1, 0)

Reverse(s) == [i \in 1..Len(s) |-> s[Len(s) + 1 - i]]

\* the while loop of num2str: pushes the digits least significant first
RECURSIVE num2str_loop(_, _, _)
num2str_loop(current, digitstring, result) ==
  LET base == str_len(digitstring)
  IN IF ~(current > 0) THEN Ok(Reverse(result))
     ELSE IF base = 0 THEN Panic
     ELSE IF base = 1 THEN [tag |-> "diverges"]
     ELSE LET ch == chars_nth(digitstring, current % base)
          IN IF ch.tag = "None" THEN Panic
             ELSE num2str_loop(Quot(current, base), digitstring, Append(result, ch.val))

num2str(n, digitstring) ==
  IF n = 0
  THEN IF digitstring = <<>> THEN Panic ELSE Ok(<<Head(digitstring)>>)
  ELSE num2str_loop(n, digitstring, <<>>)

(* --------------------------- codec state ------------------------------- *)
Strings(S, k) == UNION {[1..l -> S] : l \in 0..k}

\* alphabets of unique symbols
Alphabets ==
  {a \in Strings(Chars, MaxAlphaLen) :
     Len(a) > 0 /\ \A i \in 1..Len(a) : \A j \in 1..Len(a) : i # j => a[i] # a[j]}

\* let encoded = str2num(text, digitstring)
Encode ==
  /\ cpc = "start"
  /\ \E s \in Strings(Chars, MaxTextLen) : \E a \in Alphabets :
       /\ text' = s
       /\ alphabet' = a
       /\ encoded' = str2num(s, a)
  /\ cpc' = "encoded"
  /\ UNCHANGED decoded
  /\ UNCHANGED cryptoVars

\* let decoded = num2str(&encoded.unwrap(), digitstring)
Decode ==
  /\ cpc = "encoded"
  /\ encoded.tag = "Some"
  /\ decoded' = num2str(encoded.val, alphabet)
  /\ cpc' = "decoded"
  /\ UNCHANGED <<text, alphabet, encoded>>
  /\ UNCHANGED cryptoVars

NextCodec == Encode \/ Decode

SpecCodec == Init /\ [][NextCodec]_vars

(* -------------------------- codec properties --------------------------- *)
SymbolsOf(a) == {a[i] : i \in 1..Len(a)}

HasInvalid == \E i \in 1..Len(text) : text[i] \notin SymbolsOf(alphabet)

FirstInvalid ==
  CHOOSE i \in 1..Len(text) :
    /\ text[i] \notin SymbolsOf(alphabet)
    /\ \A j \in 1..(i - 1) : text[j] \in SymbolsOf(alphabet)

\* the position of symbol c in the alphabet sequence, counted from 0
IndexOf(a, c) == (CHOOSE i \in 1..Len(a) : a[i] = c) - 1

\* sum over i of index(s[i]) * base^(k-1-i), base = number of symbols
RECURSIVE PositionalValue(_, _)
PositionalValue(s, a) ==
  IF s = <<>> THEN 0
  ELSE IndexOf(a, Head(s)) * Pow(Len(a), Len(s) - 1) + PositionalValue(Tail(s), a)

\* C4: for every alphabet of unique symbols and every string of alphabet
\* symbols whose leading character is not the symbol at index 0,
\* decode(encode(s, alphabet), alphabet) = s.
C4_RoundTrip ==
  (cpc = "decoded" /\ Len(text) > 0 /\ text[1] # alphabet[1]) => decoded = Ok(text)

\* C6: encode fails iff the text contains a character absent from the alphabet,
\* and the failure identifies the first such character and its zero-based position.
C6_InvalidCharacter ==
  cpc # "start" =>
    /\ (encoded.tag # "Some") <=> HasInvalid
    /\ HasInvalid =>
         /\ encoded.tag = "InvalidCharacterError"
         /\ encoded.character = text[FirstInvalid]
         /\ encoded.position = FirstInvalid - 1

\* C9: for every alphabet of unique symbols of any character width and every
\* string s of alphabet symbols, encode(s, alphabet) is the positional value of
\* s in base (number of symbols) with each symbol's index as its digit.
C9_PositionalValue ==
  (cpc # "start" /\ ~HasInvalid) =>
    encoded = [tag |-> "Some", val |-> PositionalValue(text, alphabet)]

====
